---- MODULE Spec2Model ----
(***************************************************************************)
(* FullWidthNumberField (FullWidthInputField.tsx): a numeric text field    *)
(* that accepts full-width digits, keeps a normalized half-width value,    *)
(* validates it, shows it comma-grouped, and stays out of the way of an    *)
(* IME composition.                                                        *)
(*                                                                         *)
(* Text is a sequence of UTF-16 code units (integers), so that the         *)
(* normalizer's code-point arithmetic is modelled as the code does it.     *)
(* A number is the exact decimal  (-1)^neg * mant / 10^scale.              *)
(***************************************************************************)
EXTENDS Integers, Sequences, FiniteSets, TLC

----------------------------------------------------------------------------
(* Characters *)

CH_ZERO == 48
CH_NINE == 57
CH_DOT == 46
CH_MINUS == 45
CH_COMMA == 44
FW_ZERO == 65296
FW_NINE == 65305
FW_DOT == 65294
FW_OFFSET == 65248
KATAKANA_LONG == 12540
\* the full-width hyphen-minus and the full-width comma, next to the
\* full-width period
FW_MINUS == FW_DOT - 1
FW_COMMA == FW_DOT - 2
HIRAGANA_A == 12354

(* Literal text used by the code and by the cases below. *)
Str(digits) == [i \in 1..Len(digits) |-> CH_ZERO + digits[i]]
EMPTY == <<>>
MINUS == <<CH_MINUS>>
DOT == <<CH_DOT>>
MINUS_DOT == <<CH_MINUS, CH_DOT>>

----------------------------------------------------------------------------
(* Bounds of the model *)

\* longest text an input event delivers
MaxLen == 2

\* characters the user types: '1', '.', '-', ',' and the full-width digit one
Alphabet == {CH_ZERO + 1, CH_DOT, CH_MINUS, CH_COMMA, FW_ZERO + 1}

\* event.target.value of an input event: the text the field shows with one
\* character typed somewhere or one character deleted
Edits(shown) ==
    LET n == Len(shown)
    IN  { SubSeq(shown, 1, i) \o <<c>> \o SubSeq(shown, i + 1, n) :
              i \in (IF n + 1 <= MaxLen THEN 0..n ELSE {}), c \in Alphabet }
          \cup { SubSeq(shown, 1, i - 1) \o SubSeq(shown, i + 1, n) :
                     i \in (IF n - 1 <= MaxLen THEN 1..n ELSE {}) }

\* optional values: a prop that is absent (undefined / null) or given
Undefined == [defined |-> FALSE]
Def(x) == [defined |-> TRUE, v |-> x]

\* values the parent passes as the `value` prop: none, '5000', '1.55' and
\* the sample's 'あ１２３'
ExternalValues ==
    { Undefined,
      Def(Str(<<5, 0, 0, 0>>)),
      Def(<<CH_ZERO + 1, CH_DOT, CH_ZERO + 5, CH_ZERO + 5>>),
      Def(<<HIRAGANA_A, FW_ZERO + 1, FW_ZERO + 2, FW_ZERO + 3>>) }

Props(required, allowDecimal, decimalPlaces, min, max) ==
    [ required |-> required, allowDecimal |-> allowDecimal,
      decimalPlaces |-> decimalPlaces, min |-> min, max |-> max ]

\* the constraint props of one widget instance: the defaults; a required
\* range; an integer range; one decimal place; everything at once; a
\* required integer with decimalPlaces given; two decimal places
PropsSets ==
    { Props(FALSE, TRUE, Undefined, Undefined, Undefined),
      Props(TRUE, TRUE, Undefined, Def(0), Def(10)),
      Props(FALSE, FALSE, Undefined, Def(0), Def(10)),
      Props(FALSE, TRUE, Def(1), Undefined, Undefined),
      Props(TRUE, TRUE, Def(1), Def(0), Def(10)),
      Props(TRUE, FALSE, Def(1), Undefined, Undefined),
      Props(FALSE, TRUE, Def(2), Undefined, Undefined) }

----------------------------------------------------------------------------
(* JavaScript built-ins the code calls, over the characters above *)

IsDigit(c) == c >= CH_ZERO /\ c <= CH_NINE

AllDigits(s) == \A i \in 1..Len(s) : IsDigit(s[i])

RECURSIVE Pow10(_)
Pow10(k) == IF k = 0 THEN 1 ELSE 10 * Pow10(k - 1)

RECURSIVE DigitsToNat(_)
DigitsToNat(ds) ==
    IF ds = <<>> THEN 0
    ELSE 10 * DigitsToNat(SubSeq(ds, 1, Len(ds) - 1)) + (ds[Len(ds)] - CH_ZERO)

RECURSIVE NatToDigits(_)
NatToDigits(n) ==
    IF n < 10 THEN <<CH_ZERO + n>>
    ELSE NatToDigits(n \div 10) \o <<CH_ZERO + (n % 10)>>

\* n written with at least k digits (leading zeros)
RECURSIVE PadLeft(_, _)
PadLeft(ds, k) == IF Len(ds) >= k THEN ds ELSE PadLeft(<<CH_ZERO>> \o ds, k)

\* index of the first '.', 0 when there is none
RECURSIVE FirstDotFrom(_, _)
FirstDotFrom(s, i) ==
    IF i > Len(s) THEN 0
    ELSE IF s[i] = CH_DOT THEN i
    ELSE FirstDotFrom(s, i + 1)

FirstDot(s) == FirstDotFrom(s, 1)

\* String.prototype.split('.')
RECURSIVE SplitDot(_)
SplitDot(s) ==
    LET d == FirstDot(s)
    IN  IF d = 0 THEN <<s>>
        ELSE <<SubSeq(s, 1, d - 1)>> \o SplitDot(SubSeq(s, d + 1, Len(s)))

\* Number(s) is not NaN: s is empty or  -?(digits+ (. digits*)? | . digits+)
IsNumeric(s) ==
    \/ s = <<>>
    \/ LET body == IF s[1] = CH_MINUS THEN Tail(s) ELSE s
           parts == SplitDot(body)
       IN  /\ Len(parts) <= 2
           /\ AllDigits(parts[1])
           /\ Len(parts) = 2 => AllDigits(parts[2])
           /\ Len(parts[1]) + (IF Len(parts) = 2 THEN Len(parts[2]) ELSE 0) > 0

\* Number(s) for a numeric s
ToNumber(s) ==
    IF s = <<>> THEN [neg |-> FALSE, mant |-> 0, scale |-> 0]
    ELSE LET neg == s[1] = CH_MINUS
             body == IF neg THEN Tail(s) ELSE s
             parts == SplitDot(body)
             frac == IF Len(parts) = 2 THEN parts[2] ELSE <<>>
         IN  [neg |-> neg, mant |-> DigitsToNat(parts[1] \o frac), scale |-> Len(frac)]

\* num < n  and  num > n  for an integer n
NumLess(num, n) ==
    (IF num.neg THEN 0 - num.mant ELSE num.mant) < n * Pow10(num.scale)

NumGreater(num, n) ==
    (IF num.neg THEN 0 - num.mant ELSE num.mant) > n * Pow10(num.scale)

\* |num| rounded half away from zero to k fractional digits, times 10^k
RoundScaled(num, k) ==
    (2 * num.mant * Pow10(k) + Pow10(num.scale)) \div (2 * Pow10(num.scale))

\* digits grouped in threes from the right
RECURSIVE GroupThousands(_)
GroupThousands(ds) ==
    IF Len(ds) <= 3 THEN ds
    ELSE GroupThousands(SubSeq(ds, 1, Len(ds) - 3))
             \o <<CH_COMMA>> \o SubSeq(ds, Len(ds) - 2, Len(ds))

\* the largest number of fraction digits toFixed and Intl.NumberFormat take
MAX_FRACTION_DIGITS == 100

\* the outcome of a call that throws a RangeError instead of returning a text
RangeError == <<0 - 1>>

\* Number.prototype.toFixed(k): no sign for a zero, no grouping; a RangeError
\* unless 0 <= k <= 100. Numbers here are exact decimals below 10^21, where
\* toFixed writes plain digits (from 10^21 on it writes an exponent)
ToFixed(num, k) ==
    IF k < 0 \/ k > MAX_FRACTION_DIGITS THEN RangeError
    ELSE LET q == RoundScaled(num, k)
             ip == NatToDigits(q \div Pow10(k))
             fp == PadLeft(NatToDigits(q % Pow10(k)), k)
         IN  (IF num.neg /\ num.mant > 0 THEN <<CH_MINUS>> ELSE <<>>)
                 \o ip \o (IF k > 0 THEN <<CH_DOT>> \o fp ELSE <<>>)

\* Number.prototype.toLocaleString('en-US', {minimumFractionDigits: k,
\* maximumFractionDigits: k}): the sign is kept for a negative zero; a
\* RangeError unless 0 <= k <= 100
ToLocaleString(num, k) ==
    IF k < 0 \/ k > MAX_FRACTION_DIGITS THEN RangeError
    ELSE LET q == RoundScaled(num, k)
             ip == GroupThousands(NatToDigits(q \div Pow10(k)))
             fp == PadLeft(NatToDigits(q % Pow10(k)), k)
         IN  (IF num.neg THEN <<CH_MINUS>> ELSE <<>>)
                 \o ip \o (IF k > 0 THEN <<CH_DOT>> \o fp ELSE <<>>)

----------------------------------------------------------------------------
(* The three pure functions *)

\* (mutation) a last step turns the full-width comma into a comma, after the
\* commas were removed
RECURSIVE normalizeAndRemoveCommas_str_LateComma(_)
normalizeAndRemoveCommas_str_LateComma(str) ==
    IF str = <<>> THEN <<>>
    ELSE LET c == Head(str)
             rest == normalizeAndRemoveCommas_str_LateComma(Tail(str))
         IN  IF c >= FW_ZERO /\ c <= FW_NINE THEN <<c - FW_OFFSET>> \o rest
             ELSE IF c = FW_DOT THEN <<CH_DOT>> \o rest
             ELSE IF c = KATAKANA_LONG THEN <<CH_MINUS>> \o rest
             ELSE IF c = CH_COMMA THEN rest
             ELSE IF c = FW_COMMA THEN <<CH_COMMA>> \o rest
             ELSE <<c>> \o rest

RECURSIVE normalizeAndRemoveCommas_str(_)
normalizeAndRemoveCommas_str(str) ==
    IF str = <<>> THEN <<>>
    ELSE LET c == Head(str)
             rest == normalizeAndRemoveCommas_str(Tail(str))
         IN  IF c >= FW_ZERO /\ c <= FW_NINE THEN <<c - FW_OFFSET>> \o rest
             ELSE IF c = FW_DOT THEN <<CH_DOT>> \o rest
             ELSE IF c = KATAKANA_LONG THEN <<CH_MINUS>> \o rest
             ELSE IF c = CH_COMMA THEN rest
             ELSE <<c>> \o rest

normalizeAndRemoveCommas(input) ==
    IF ~input.defined THEN <<>> ELSE normalizeAndRemoveCommas_str(input.v)

\* (mutation) the pattern with the decimal part is used for integer fields too
isValidNumericFormat_AlwaysDecimal(currentValue, allowDecimal) ==
    LET body == IF currentValue /= <<>> /\ currentValue[1] = CH_MINUS
                THEN Tail(currentValue) ELSE currentValue
        parts == SplitDot(body)
    IN  Len(parts) <= 2 /\ \A i \in 1..Len(parts) : AllDigits(parts[i])

\* new RegExp(patternStr).test(currentValue)
isValidNumericFormat(currentValue, allowDecimal) ==
    LET body == IF currentValue /= <<>> /\ currentValue[1] = CH_MINUS
                THEN Tail(currentValue) ELSE currentValue
        parts == SplitDot(body)
    IN  IF allowDecimal
        THEN Len(parts) <= 2 /\ \A i \in 1..Len(parts) : AllDigits(parts[i])
        ELSE AllDigits(body)

NoError == [hasError |-> FALSE, helperText |-> ""]
Failure(msg) == [hasError |-> TRUE, helperText |-> msg]

\* (mutation) the check against max is missing
validateAndSetError_IgnoresMax(currentValue, p) ==
    IF p.required /\ currentValue = <<>> THEN Failure("required")
    ELSE IF currentValue = <<>> THEN NoError
    ELSE IF ~isValidNumericFormat(currentValue, p.allowDecimal) THEN Failure("format")
    ELSE LET isInputInProgress ==
                 \/ currentValue = MINUS
                 \/ p.allowDecimal /\ (currentValue = DOT \/ currentValue = MINUS_DOT)
         IN  IF isInputInProgress THEN NoError
             ELSE IF ~IsNumeric(currentValue) THEN Failure("nan")
             ELSE LET numValue == ToNumber(currentValue)
                      parts == SplitDot(currentValue)
                      tooManyPlaces ==
                          /\ p.allowDecimal
                          /\ p.decimalPlaces.defined
                          /\ Len(parts) > 1
                          /\ Len(parts[2]) > p.decimalPlaces.v
                      belowMin == p.min.defined /\ NumLess(numValue, p.min.v)
                      aboveMax == p.max.defined /\ NumGreater(numValue, p.max.v)
                  IN  IF tooManyPlaces THEN Failure("decimals")
                      ELSE IF belowMin THEN Failure("min")
                      ELSE NoError

\* (mutation) the in-progress texts are validated as numbers
validateAndSetError_NoInProgress(currentValue, p) ==
    IF p.required /\ currentValue = <<>> THEN Failure("required")
    ELSE IF currentValue = <<>> THEN NoError
    ELSE IF ~isValidNumericFormat(currentValue, p.allowDecimal) THEN Failure("format")
    ELSE LET isInputInProgress == FALSE
         IN  IF isInputInProgress THEN NoError
             ELSE IF ~IsNumeric(currentValue) THEN Failure("nan")
             ELSE LET numValue == ToNumber(currentValue)
                      parts == SplitDot(currentValue)
                      tooManyPlaces ==
                          /\ p.allowDecimal
                          /\ p.decimalPlaces.defined
                          /\ Len(parts) > 1
                          /\ Len(parts[2]) > p.decimalPlaces.v
                      belowMin == p.min.defined /\ NumLess(numValue, p.min.v)
                      aboveMax == p.max.defined /\ NumGreater(numValue, p.max.v)
                  IN  IF tooManyPlaces THEN Failure("decimals")
                      ELSE IF aboveMax THEN Failure("max")
                      ELSE IF belowMin THEN Failure("min")
                      ELSE NoError

\* (mutation) a fraction of exactly decimalPlaces digits is rejected
validateAndSetError_DecimalsInclusive(currentValue, p) ==
    IF p.required /\ currentValue = <<>> THEN Failure("required")
    ELSE IF currentValue = <<>> THEN NoError
    ELSE IF ~isValidNumericFormat(currentValue, p.allowDecimal) THEN Failure("format")
    ELSE LET isInputInProgress ==
                 \/ currentValue = MINUS
                 \/ p.allowDecimal /\ (currentValue = DOT \/ currentValue = MINUS_DOT)
         IN  IF isInputInProgress THEN NoError
             ELSE IF ~IsNumeric(currentValue) THEN Failure("nan")
             ELSE LET numValue == ToNumber(currentValue)
                      parts == SplitDot(currentValue)
                      tooManyPlaces ==
                          /\ p.allowDecimal
                          /\ p.decimalPlaces.defined
                          /\ Len(parts) > 1
                          /\ Len(parts[2]) >= p.decimalPlaces.v
                      belowMin == p.min.defined /\ NumLess(numValue, p.min.v)
                      aboveMax == p.max.defined /\ NumGreater(numValue, p.max.v)
                  IN  IF tooManyPlaces THEN Failure("decimals")
                      ELSE IF aboveMax THEN Failure("max")
                      ELSE IF belowMin THEN Failure("min")
                      ELSE NoError

\* (mutation) the range is checked before the decimal places
validateAndSetError_RangeFirst(currentValue, p) ==
    IF p.required /\ currentValue = <<>> THEN Failure("required")
    ELSE IF currentValue = <<>> THEN NoError
    ELSE IF ~isValidNumericFormat(currentValue, p.allowDecimal) THEN Failure("format")
    ELSE LET isInputInProgress ==
                 \/ currentValue = MINUS
                 \/ p.allowDecimal /\ (currentValue = DOT \/ currentValue = MINUS_DOT)
         IN  IF isInputInProgress THEN NoError
             ELSE IF ~IsNumeric(currentValue) THEN Failure("nan")
             ELSE LET numValue == ToNumber(currentValue)
                      parts == SplitDot(currentValue)
                      tooManyPlaces ==
                          /\ p.allowDecimal
                          /\ p.decimalPlaces.defined
                          /\ Len(parts) > 1
                          /\ Len(parts[2]) > p.decimalPlaces.v
                      belowMin == p.min.defined /\ NumLess(numValue, p.min.v)
                      aboveMax == p.max.defined /\ NumGreater(numValue, p.max.v)
                  IN  IF aboveMax THEN Failure("max")
                      ELSE IF belowMin THEN Failure("min")
                      ELSE IF tooManyPlaces THEN Failure("decimals")
                      ELSE NoError

\* (mutation) the message of the min check replaces the one of the max check
validateAndSetError_MinWins(currentValue, p) ==
    IF p.required /\ currentValue = <<>> THEN Failure("required")
    ELSE IF currentValue = <<>> THEN NoError
    ELSE IF ~isValidNumericFormat(currentValue, p.allowDecimal) THEN Failure("format")
    ELSE LET isInputInProgress ==
                 \/ currentValue = MINUS
                 \/ p.allowDecimal /\ (currentValue = DOT \/ currentValue = MINUS_DOT)
         IN  IF isInputInProgress THEN NoError
             ELSE IF ~IsNumeric(currentValue) THEN Failure("nan")
             ELSE LET numValue == ToNumber(currentValue)
                      parts == SplitDot(currentValue)
                      tooManyPlaces ==
                          /\ p.allowDecimal
                          /\ p.decimalPlaces.defined
                          /\ Len(parts) > 1
                          /\ Len(parts[2]) > p.decimalPlaces.v
                      belowMin == p.min.defined /\ NumLess(numValue, p.min.v)
                      aboveMax == p.max.defined /\ NumGreater(numValue, p.max.v)
                  IN  IF tooManyPlaces THEN Failure("decimals")
                      ELSE IF belowMin THEN Failure("min")
                      ELSE IF aboveMax THEN Failure("max")
                      ELSE NoError

\* (mutation) '.' and '-.' are not exempted as in-progress texts
validateAndSetError_NoDotExemption(currentValue, p) ==
    IF p.required /\ currentValue = <<>> THEN Failure("required")
    ELSE IF currentValue = <<>> THEN NoError
    ELSE IF ~isValidNumericFormat(currentValue, p.allowDecimal) THEN Failure("format")
    ELSE LET isInputInProgress ==
                 currentValue = MINUS
         IN  IF isInputInProgress THEN NoError
             ELSE IF ~IsNumeric(currentValue) THEN Failure("nan")
             ELSE LET numValue == ToNumber(currentValue)
                      parts == SplitDot(currentValue)
                      tooManyPlaces ==
                          /\ p.allowDecimal
                          /\ p.decimalPlaces.defined
                          /\ Len(parts) > 1
                          /\ Len(parts[2]) > p.decimalPlaces.v
                      belowMin == p.min.defined /\ NumLess(numValue, p.min.v)
                      aboveMax == p.max.defined /\ NumGreater(numValue, p.max.v)
                  IN  IF tooManyPlaces THEN Failure("decimals")
                      ELSE IF aboveMax THEN Failure("max")
                      ELSE IF belowMin THEN Failure("min")
                      ELSE NoError

validateAndSetError(currentValue, p) ==
    IF p.required /\ currentValue = <<>> THEN Failure("required")
    ELSE IF currentValue = <<>> THEN NoError
    ELSE IF ~isValidNumericFormat(currentValue, p.allowDecimal) THEN Failure("format")
    ELSE LET isInputInProgress ==
                 \/ currentValue = MINUS
                 \/ p.allowDecimal /\ (currentValue = DOT \/ currentValue = MINUS_DOT)
         IN  IF isInputInProgress THEN NoError
             ELSE IF ~IsNumeric(currentValue) THEN Failure("nan")
             ELSE LET numValue == ToNumber(currentValue)
                      parts == SplitDot(currentValue)
                      tooManyPlaces ==
                          /\ p.allowDecimal
                          /\ p.decimalPlaces.defined
                          /\ Len(parts) > 1
                          /\ Len(parts[2]) > p.decimalPlaces.v
                      belowMin == p.min.defined /\ NumLess(numValue, p.min.v)
                      aboveMax == p.max.defined /\ NumGreater(numValue, p.max.v)
                  IN  IF tooManyPlaces THEN Failure("decimals")
                      ELSE IF aboveMax THEN Failure("max")
                      ELSE IF belowMin THEN Failure("min")
                      ELSE NoError

\* (mutation) without decimalPlaces the typed fraction is rounded away
formatNumberWithCommas_DropsFraction(value, allowDecimal, decimalPlaces) ==
    IF value \in {EMPTY, MINUS, DOT, MINUS_DOT} THEN value
    ELSE IF ~IsNumeric(value)
    THEN LET parts == SplitDot(value)
             integerPart == parts[1]
         IN  IF integerPart /= <<>> /\ IsNumeric(integerPart)
             THEN LET formattedInt == ToLocaleString(ToNumber(integerPart), 0)
                  IN  IF allowDecimal /\ Len(parts) > 1
                      THEN formattedInt \o <<CH_DOT>> \o parts[2]
                      ELSE formattedInt
             ELSE value
    ELSE LET num == ToNumber(value)
             fractionDigits ==
                 IF ~allowDecimal THEN 0
                 ELSE IF decimalPlaces.defined THEN decimalPlaces.v
                 ELSE 0
         IN  ToLocaleString(num, fractionDigits)

formatNumberWithCommas(value, allowDecimal, decimalPlaces) ==
    IF value \in {EMPTY, MINUS, DOT, MINUS_DOT} THEN value
    ELSE IF ~IsNumeric(value)
    THEN LET parts == SplitDot(value)
             integerPart == parts[1]
         IN  IF integerPart /= <<>> /\ IsNumeric(integerPart)
             THEN LET formattedInt == ToLocaleString(ToNumber(integerPart), 0)
                  IN  IF allowDecimal /\ Len(parts) > 1
                      THEN formattedInt \o <<CH_DOT>> \o parts[2]
                      ELSE formattedInt
             ELSE value
    ELSE LET num == ToNumber(value)
             parts == SplitDot(value)
             fractionDigits ==
                 IF ~allowDecimal THEN 0
                 ELSE IF decimalPlaces.defined THEN decimalPlaces.v
                 ELSE IF Len(parts) > 1 THEN Len(parts[2]) ELSE 0
         IN  ToLocaleString(num, fractionDigits)

----------------------------------------------------------------------------
(* The component *)

VARIABLES
    props,              \* required, allowDecimal, decimalPlaces, min, max
    controlledValue,    \* the `value` prop of the last render
    internalValue,      \* useState: the canonical value
    error,              \* useState: the error flag
    internalHelperText, \* useState: the error message
    isComposing,        \* useRef: an IME composition is open
    shownValue,         \* displayValue of the last render, the text field's value
    lastEvent,          \* the event handled last, with the text it carried
    valueChangeCalls,   \* arguments of onValueChange during the last event
    changeCalls,        \* target.value of onChange during the last event
    blurCalls,          \* onBlur calls during the last event
    validated           \* history: validateAndSetError has run since the mount

vars == <<props, controlledValue, internalValue, error, internalHelperText,
          isComposing, shownValue, lastEvent, valueChangeCalls, changeCalls,
          blurCalls, validated>>

\* the stored verdict
Verdict == [hasError |-> error, helperText |-> internalHelperText]

\* (mutation) the render formats the value also when it is in error
displayValue_FormatsErrors(composing, err, value, p) ==
    IF composing THEN value
    ELSE formatNumberWithCommas(value, p.allowDecimal, p.decimalPlaces)

\* the render's displayValue
displayValue(composing, err, value, p) ==
    IF composing \/ err THEN value
    ELSE formatNumberWithCommas(value, p.allowDecimal, p.decimalPlaces)

\* React renders again only when a state setter was given a different value
Rerender(value, verdict, composing) ==
    IF \/ value /= internalValue
       \/ verdict.hasError /= error
       \/ verdict.helperText /= internalHelperText
    THEN displayValue(composing, verdict.hasError, value, props)
    ELSE shownValue

Event(kind, value) == [kind |-> kind, value |-> value]

\* (mutation) the mount validates the initial value
Init_Validates ==
    /\ props \in PropsSets
    /\ controlledValue \in ExternalValues
    /\ internalValue = normalizeAndRemoveCommas(controlledValue)
    /\ error = validateAndSetError(internalValue, props).hasError
    /\ internalHelperText = validateAndSetError(internalValue, props).helperText
    /\ isComposing = FALSE
    /\ shownValue = displayValue(FALSE, error, internalValue, props)
    /\ lastEvent = Event("Mount", controlledValue)
    /\ valueChangeCalls = <<>>
    /\ changeCalls = <<>>
    /\ blurCalls = 0
    /\ validated = FALSE

Init ==
    /\ props \in PropsSets
    /\ controlledValue \in ExternalValues
    /\ internalValue = normalizeAndRemoveCommas(controlledValue)
    /\ error = FALSE
    /\ internalHelperText = ""
    /\ isComposing = FALSE
    /\ shownValue = displayValue(FALSE, FALSE, internalValue, props)
    /\ lastEvent = Event("Mount", controlledValue)
    /\ valueChangeCalls = <<>>
    /\ changeCalls = <<>>
    /\ blurCalls = 0
    /\ validated = FALSE

\* (mutation) the effect lacks the isComposing guard
ExternalValueChanged_NoGuard(v) ==
    /\ v /= controlledValue
    /\ controlledValue' = v
    /\ lastEvent' = Event("ExternalValueChanged", v)
    /\ LET normalized == normalizeAndRemoveCommas(v)
           verdict == validateAndSetError(normalized, props)
       IN  IF normalized /= internalValue
           THEN /\ internalValue' = normalized
                /\ error' = verdict.hasError
                /\ internalHelperText' = verdict.helperText
                /\ shownValue' = displayValue(isComposing, verdict.hasError,
                                              normalized, props)
                /\ validated' = TRUE
           ELSE /\ UNCHANGED <<internalValue, error, internalHelperText, validated>>
                /\ shownValue' = displayValue(isComposing, error, internalValue, props)
    /\ valueChangeCalls' = <<>>
    /\ changeCalls' = <<>>
    /\ blurCalls' = 0
    /\ UNCHANGED <<props, isComposing>>

\* (mutation) the effect reports the synchronized value to the parent
ExternalValueChanged_Notifies(v) ==
    /\ v /= controlledValue
    /\ controlledValue' = v
    /\ lastEvent' = Event("ExternalValueChanged", v)
    /\ LET normalized == normalizeAndRemoveCommas(v)
           verdict == validateAndSetError(normalized, props)
       IN  IF ~isComposing /\ normalized /= internalValue
           THEN /\ internalValue' = normalized
                /\ error' = verdict.hasError
                /\ internalHelperText' = verdict.helperText
                /\ shownValue' = displayValue(isComposing, verdict.hasError,
                                              normalized, props)
                /\ validated' = TRUE
                /\ valueChangeCalls' = <<normalized>>
           ELSE /\ UNCHANGED <<internalValue, error, internalHelperText, validated>>
                /\ shownValue' = displayValue(isComposing, error, internalValue, props)
                /\ valueChangeCalls' = <<>>
    /\ changeCalls' = <<>>
    /\ blurCalls' = 0
    /\ UNCHANGED <<props, isComposing>>

\* (mutation) the effect stores the new value without validating it
ExternalValueChanged_NoValidation(v) ==
    /\ v /= controlledValue
    /\ controlledValue' = v
    /\ lastEvent' = Event("ExternalValueChanged", v)
    /\ LET normalized == normalizeAndRemoveCommas(v)
       IN  IF ~isComposing /\ normalized /= internalValue
           THEN /\ internalValue' = normalized
                /\ shownValue' = displayValue(isComposing, error, normalized, props)
           ELSE /\ UNCHANGED internalValue
                /\ shownValue' = displayValue(isComposing, error, internalValue, props)
    /\ valueChangeCalls' = <<>>
    /\ changeCalls' = <<>>
    /\ blurCalls' = 0
    /\ UNCHANGED <<props, isComposing, error, internalHelperText, validated>>

\* (mutation) the effect always stores the value and reports it to the parent
ExternalValueChanged_EchoesBack(v) ==
    /\ v /= controlledValue
    /\ controlledValue' = v
    /\ lastEvent' = Event("ExternalValueChanged", v)
    /\ LET normalized == normalizeAndRemoveCommas(v)
           verdict == validateAndSetError(normalized, props)
       IN  IF ~isComposing
           THEN /\ internalValue' = normalized
                /\ error' = verdict.hasError
                /\ internalHelperText' = verdict.helperText
                /\ shownValue' = displayValue(isComposing, verdict.hasError,
                                              normalized, props)
                /\ validated' = TRUE
                /\ valueChangeCalls' = <<normalized>>
           ELSE /\ UNCHANGED <<internalValue, error, internalHelperText, validated>>
                /\ shownValue' = displayValue(isComposing, error, internalValue, props)
                /\ valueChangeCalls' = <<>>
    /\ changeCalls' = <<>>
    /\ blurCalls' = 0
    /\ UNCHANGED <<props, isComposing>>

\* the parent renders the field with another `value`: the render, then the
\* effect on [controlledValue], then the render its state updates ask for
ExternalValueChanged(v) ==
    /\ v /= controlledValue
    /\ controlledValue' = v
    /\ lastEvent' = Event("ExternalValueChanged", v)
    /\ LET normalized == normalizeAndRemoveCommas(v)
       IN  IF ~isComposing /\ normalized /= internalValue
           THEN LET verdict == validateAndSetError(normalized, props)
                IN  /\ internalValue' = normalized
                    /\ error' = verdict.hasError
                    /\ internalHelperText' = verdict.helperText
                    /\ shownValue' = displayValue(isComposing, verdict.hasError,
                                                  normalized, props)
                    /\ validated' = TRUE
           ELSE /\ UNCHANGED <<internalValue, error, internalHelperText, validated>>
                /\ shownValue' = displayValue(isComposing, error, internalValue, props)
    /\ valueChangeCalls' = <<>>
    /\ changeCalls' = <<>>
    /\ blurCalls' = 0
    /\ UNCHANGED <<props, isComposing>>

\* the parent renders the field again with the same props
ParentRender ==
    /\ shownValue' = displayValue(isComposing, error, internalValue, props)
    /\ lastEvent' = Event("ParentRender", Undefined)
    /\ valueChangeCalls' = <<>>
    /\ changeCalls' = <<>>
    /\ blurCalls' = 0
    /\ UNCHANGED <<props, controlledValue, internalValue, error,
                   internalHelperText, isComposing, validated>>

\* (mutation) the start of a composition clears the error
onCompositionStart_ClearsError ==
    /\ isComposing' = TRUE
    /\ error' = FALSE
    /\ internalHelperText' = ""
    /\ lastEvent' = Event("CompositionStart", Undefined)
    /\ valueChangeCalls' = <<>>
    /\ changeCalls' = <<>>
    /\ blurCalls' = 0
    /\ UNCHANGED <<props, controlledValue, internalValue, shownValue, validated>>

onCompositionStart ==
    /\ isComposing' = TRUE
    /\ lastEvent' = Event("CompositionStart", Undefined)
    /\ valueChangeCalls' = <<>>
    /\ changeCalls' = <<>>
    /\ blurCalls' = 0
    /\ UNCHANGED <<props, controlledValue, internalValue, error,
                   internalHelperText, shownValue, validated>>

\* the idle branch of handleInternalChange
CommitChange(inputValue, composing) ==
    LET normalizedValue == normalizeAndRemoveCommas(Def(inputValue))
        verdict == validateAndSetError(normalizedValue, props)
    IN  /\ internalValue' = normalizedValue
        /\ error' = verdict.hasError
        /\ internalHelperText' = verdict.helperText
        /\ validated' = TRUE
        /\ shownValue' = Rerender(normalizedValue, verdict, composing)
        /\ valueChangeCalls' = <<normalizedValue>>
        /\ changeCalls' = <<normalizedValue>>

\* the composing branch of handleInternalChange
BufferChange(inputValue, composing) ==
    /\ internalValue' = inputValue
    /\ UNCHANGED <<error, internalHelperText, validated>>
    /\ shownValue' = Rerender(inputValue, Verdict, composing)
    /\ valueChangeCalls' = <<>>
    /\ changeCalls' = <<inputValue>>

\* (mutation) the composing branch reports the buffer through onValueChange
handleInternalChange_NotifiesBuffer(inputValue, composing) ==
    IF composing
    THEN /\ internalValue' = inputValue
         /\ UNCHANGED <<error, internalHelperText, validated>>
         /\ shownValue' = Rerender(inputValue, Verdict, composing)
         /\ valueChangeCalls' = <<inputValue>>
         /\ changeCalls' = <<inputValue>>
    ELSE CommitChange(inputValue, composing)

\* (mutation) onValueChange is skipped when the normalized value is the
\* stored one
handleInternalChange_OnlyWhenChanged(inputValue, composing) ==
    IF composing
    THEN BufferChange(inputValue, composing)
    ELSE LET normalizedValue == normalizeAndRemoveCommas(Def(inputValue))
             verdict == validateAndSetError(normalizedValue, props)
         IN  /\ internalValue' = normalizedValue
             /\ error' = verdict.hasError
             /\ internalHelperText' = verdict.helperText
             /\ validated' = TRUE
             /\ shownValue' = Rerender(normalizedValue, verdict, composing)
             /\ valueChangeCalls' = IF normalizedValue /= internalValue
                                    THEN <<normalizedValue>> ELSE <<>>
             /\ changeCalls' = <<normalizedValue>>

\* (mutation) the handler returns after a failed validation, before the
\* notifications
handleInternalChange_SilentOnError(inputValue, composing) ==
    IF composing
    THEN BufferChange(inputValue, composing)
    ELSE LET normalizedValue == normalizeAndRemoveCommas(Def(inputValue))
             verdict == validateAndSetError(normalizedValue, props)
         IN  /\ internalValue' = normalizedValue
             /\ error' = verdict.hasError
             /\ internalHelperText' = verdict.helperText
             /\ validated' = TRUE
             /\ shownValue' = Rerender(normalizedValue, verdict, composing)
             /\ valueChangeCalls' = IF verdict.hasError THEN <<>>
                                    ELSE <<normalizedValue>>
             /\ changeCalls' = IF verdict.hasError THEN <<>> ELSE <<normalizedValue>>

\* (mutation) the composing branch passes the normalized buffer to onChange
handleInternalChange_NormalizesBuffer(inputValue, composing) ==
    IF composing
    THEN /\ internalValue' = inputValue
         /\ UNCHANGED <<error, internalHelperText, validated>>
         /\ shownValue' = Rerender(inputValue, Verdict, composing)
         /\ valueChangeCalls' = <<>>
         /\ changeCalls' = <<normalizeAndRemoveCommas(Def(inputValue))>>
    ELSE CommitChange(inputValue, composing)

\* (mutation) onValueChange is given the text of the event instead of the
\* normalized value
handleInternalChange_NotifiesRaw(inputValue, composing) ==
    IF composing
    THEN BufferChange(inputValue, composing)
    ELSE LET normalizedValue == normalizeAndRemoveCommas(Def(inputValue))
             verdict == validateAndSetError(normalizedValue, props)
         IN  /\ internalValue' = normalizedValue
             /\ error' = verdict.hasError
             /\ internalHelperText' = verdict.helperText
             /\ validated' = TRUE
             /\ shownValue' = Rerender(normalizedValue, verdict, composing)
             /\ valueChangeCalls' = <<inputValue>>
             /\ changeCalls' = <<normalizedValue>>

\* the body of handleInternalChange, run with the composition flag `composing`
handleInternalChange(inputValue, composing) ==
    IF composing
    THEN BufferChange(inputValue, composing)
    ELSE CommitChange(inputValue, composing)

\* the input's change event, with the edited text of the field
RawChange(text) ==
    /\ handleInternalChange(text, isComposing)
    /\ lastEvent' = Event("RawChange", Def(text))
    /\ blurCalls' = 0
    /\ UNCHANGED <<props, controlledValue, isComposing>>

\* (mutation) the handler runs before the composition flag is cleared
onCompositionEnd_FlagAfter(text) ==
    /\ isComposing' = FALSE
    /\ handleInternalChange(text, isComposing)
    /\ lastEvent' = Event("CompositionEnd", Def(text))
    /\ blurCalls' = 0
    /\ UNCHANGED <<props, controlledValue>>

\* (mutation) the end of a composition stores the final text as a buffer
onCompositionEnd_KeepsBuffer(text) ==
    /\ isComposing' = FALSE
    /\ BufferChange(text, FALSE)
    /\ lastEvent' = Event("CompositionEnd", Def(text))
    /\ blurCalls' = 0
    /\ UNCHANGED <<props, controlledValue>>

\* (mutation) the end of a composition applies the `value` prop that was
\* passed during the composition instead of the final text
onCompositionEnd_ReappliesValue(text) ==
    /\ isComposing' = FALSE
    /\ handleInternalChange(normalizeAndRemoveCommas(controlledValue), FALSE)
    /\ lastEvent' = Event("CompositionEnd", Def(text))
    /\ blurCalls' = 0
    /\ UNCHANGED <<props, controlledValue>>

\* (mutation) the end of a composition stores the final text without
\* validating it: the verdict from before the composition stays
onCompositionEnd_KeepsVerdict(text) ==
    /\ isComposing' = FALSE
    /\ LET normalizedValue == normalizeAndRemoveCommas(Def(text))
       IN  /\ internalValue' = normalizedValue
           /\ shownValue' = Rerender(normalizedValue, Verdict, FALSE)
           /\ valueChangeCalls' = <<normalizedValue>>
           /\ changeCalls' = <<normalizedValue>>
    /\ validated' = TRUE
    /\ lastEvent' = Event("CompositionEnd", Def(text))
    /\ blurCalls' = 0
    /\ UNCHANGED <<props, controlledValue, error, internalHelperText>>

onCompositionEnd(text) ==
    /\ isComposing' = FALSE
    /\ handleInternalChange(text, FALSE)
    /\ lastEvent' = Event("CompositionEnd", Def(text))
    /\ blurCalls' = 0
    /\ UNCHANGED <<props, controlledValue>>

\* (mutation) the rounded value is stored without telling the parent
handleInternalBlur_SilentRounding ==
    /\ lastEvent' = Event("Blur", Undefined)
    /\ blurCalls' = 1
    /\ changeCalls' = <<>>
    /\ UNCHANGED <<props, controlledValue, isComposing>>
    /\ IF isComposing
       THEN /\ valueChangeCalls' = <<>>
            /\ UNCHANGED <<internalValue, error, internalHelperText, shownValue,
                           validated>>
       ELSE LET currentValue == internalValue
                first == validateAndSetError(currentValue, props)
                rounds ==
                    /\ ~first.hasError
                    /\ props.allowDecimal
                    /\ props.decimalPlaces.defined
                    /\ IsNumeric(currentValue)
                    /\ currentValue \notin {EMPTY, MINUS, DOT}
                roundedValue == ToFixed(ToNumber(currentValue), props.decimalPlaces.v)
            IN  /\ validated' = TRUE
                /\ IF rounds /\ roundedValue /= currentValue
                   THEN LET second == validateAndSetError(roundedValue, props)
                        IN  /\ internalValue' = roundedValue
                            /\ error' = second.hasError
                            /\ internalHelperText' = second.helperText
                            /\ shownValue' = Rerender(roundedValue, second, FALSE)
                            /\ valueChangeCalls' = <<>>
                   ELSE /\ UNCHANGED internalValue
                        /\ error' = first.hasError
                        /\ internalHelperText' = first.helperText
                        /\ shownValue' = Rerender(currentValue, first, FALSE)
                        /\ valueChangeCalls' = <<>>

\* (mutation) the rounding ignores allowDecimal
handleInternalBlur_RoundsIntegers ==
    /\ lastEvent' = Event("Blur", Undefined)
    /\ blurCalls' = 1
    /\ changeCalls' = <<>>
    /\ UNCHANGED <<props, controlledValue, isComposing>>
    /\ IF isComposing
       THEN /\ valueChangeCalls' = <<>>
            /\ UNCHANGED <<internalValue, error, internalHelperText, shownValue,
                           validated>>
       ELSE LET currentValue == internalValue
                first == validateAndSetError(currentValue, props)
                rounds ==
                    /\ ~first.hasError
                    /\ props.decimalPlaces.defined
                    /\ IsNumeric(currentValue)
                    /\ currentValue \notin {EMPTY, MINUS, DOT}
                roundedValue == ToFixed(ToNumber(currentValue), props.decimalPlaces.v)
            IN  /\ validated' = TRUE
                /\ IF rounds /\ roundedValue /= currentValue
                   THEN LET second == validateAndSetError(roundedValue, props)
                        IN  /\ internalValue' = roundedValue
                            /\ error' = second.hasError
                            /\ internalHelperText' = second.helperText
                            /\ shownValue' = Rerender(roundedValue, second, FALSE)
                            /\ valueChangeCalls' = <<roundedValue>>
                   ELSE /\ UNCHANGED internalValue
                        /\ error' = first.hasError
                        /\ internalHelperText' = first.helperText
                        /\ shownValue' = Rerender(currentValue, first, FALSE)
                        /\ valueChangeCalls' = <<>>

\* (mutation) the rounding also runs on a value the validation rejected
handleInternalBlur_RoundsInvalid ==
    /\ lastEvent' = Event("Blur", Undefined)
    /\ blurCalls' = 1
    /\ changeCalls' = <<>>
    /\ UNCHANGED <<props, controlledValue, isComposing>>
    /\ IF isComposing
       THEN /\ valueChangeCalls' = <<>>
            /\ UNCHANGED <<internalValue, error, internalHelperText, shownValue,
                           validated>>
       ELSE LET currentValue == internalValue
                first == validateAndSetError(currentValue, props)
                rounds ==
                    /\ props.allowDecimal
                    /\ props.decimalPlaces.defined
                    /\ IsNumeric(currentValue)
                    /\ currentValue \notin {EMPTY, MINUS, DOT}
                roundedValue ==
                    ToFixed(ToNumber(currentValue), props.decimalPlaces.v)
            IN  /\ validated' = TRUE
                /\ IF rounds /\ roundedValue /= currentValue
                   THEN LET second == validateAndSetError(roundedValue, props)
                        IN  /\ internalValue' = roundedValue
                            /\ error' = second.hasError
                            /\ internalHelperText' = second.helperText
                            /\ shownValue' = Rerender(roundedValue, second, FALSE)
                            /\ valueChangeCalls' = <<roundedValue>>
                   ELSE /\ UNCHANGED internalValue
                        /\ error' = first.hasError
                        /\ internalHelperText' = first.helperText
                        /\ shownValue' = Rerender(currentValue, first, FALSE)
                        /\ valueChangeCalls' = <<>>

\* (mutation) the rounding writes one fractional digit more than the stored
\* value has
handleInternalBlur_GrowsFraction ==
    /\ lastEvent' = Event("Blur", Undefined)
    /\ blurCalls' = 1
    /\ changeCalls' = <<>>
    /\ UNCHANGED <<props, controlledValue, isComposing>>
    /\ IF isComposing
       THEN /\ valueChangeCalls' = <<>>
            /\ UNCHANGED <<internalValue, error, internalHelperText, shownValue,
                           validated>>
       ELSE LET currentValue == internalValue
                first == validateAndSetError(currentValue, props)
                rounds ==
                    /\ ~first.hasError
                    /\ props.allowDecimal
                    /\ props.decimalPlaces.defined
                    /\ IsNumeric(currentValue)
                    /\ currentValue \notin {EMPTY, MINUS, DOT}
                parts == SplitDot(currentValue)
                roundedValue ==
                    ToFixed(ToNumber(currentValue),
                            (IF Len(parts) > 1 THEN Len(parts[2]) ELSE 0) + 1)
            IN  /\ validated' = TRUE
                /\ IF rounds /\ roundedValue /= currentValue
                   THEN LET second == validateAndSetError(roundedValue, props)
                        IN  /\ internalValue' = roundedValue
                            /\ error' = second.hasError
                            /\ internalHelperText' = second.helperText
                            /\ shownValue' = Rerender(roundedValue, second, FALSE)
                            /\ valueChangeCalls' = <<roundedValue>>
                   ELSE /\ UNCHANGED internalValue
                        /\ error' = first.hasError
                        /\ internalHelperText' = first.helperText
                        /\ shownValue' = Rerender(currentValue, first, FALSE)
                        /\ valueChangeCalls' = <<>>

\* (mutation) the rounding keeps one digit more than decimalPlaces
handleInternalBlur_OneDigitMore ==
    /\ lastEvent' = Event("Blur", Undefined)
    /\ blurCalls' = 1
    /\ changeCalls' = <<>>
    /\ UNCHANGED <<props, controlledValue, isComposing>>
    /\ IF isComposing
       THEN /\ valueChangeCalls' = <<>>
            /\ UNCHANGED <<internalValue, error, internalHelperText, shownValue,
                           validated>>
       ELSE LET currentValue == internalValue
                first == validateAndSetError(currentValue, props)
                rounds ==
                    /\ ~first.hasError
                    /\ props.allowDecimal
                    /\ props.decimalPlaces.defined
                    /\ IsNumeric(currentValue)
                    /\ currentValue \notin {EMPTY, MINUS, DOT}
                roundedValue ==
                    ToFixed(ToNumber(currentValue), props.decimalPlaces.v + 1)
            IN  /\ validated' = TRUE
                /\ IF rounds /\ roundedValue /= currentValue
                   THEN LET second == validateAndSetError(roundedValue, props)
                        IN  /\ internalValue' = roundedValue
                            /\ error' = second.hasError
                            /\ internalHelperText' = second.helperText
                            /\ shownValue' = Rerender(roundedValue, second, FALSE)
                            /\ valueChangeCalls' = <<roundedValue>>
                   ELSE /\ UNCHANGED internalValue
                        /\ error' = first.hasError
                        /\ internalHelperText' = first.helperText
                        /\ shownValue' = Rerender(currentValue, first, FALSE)
                        /\ valueChangeCalls' = <<>>

handleInternalBlur ==
    /\ lastEvent' = Event("Blur", Undefined)
    \* a RangeError of toFixed ends the handler before muiOnBlur
    /\ blurCalls' =
           IF /\ ~isComposing
              /\ ~validateAndSetError(internalValue, props).hasError
              /\ props.allowDecimal
              /\ props.decimalPlaces.defined
              /\ IsNumeric(internalValue)
              /\ internalValue \notin {EMPTY, MINUS, DOT}
              /\ ToFixed(ToNumber(internalValue), props.decimalPlaces.v) = RangeError
           THEN 0 ELSE 1
    /\ changeCalls' = <<>>
    /\ UNCHANGED <<props, controlledValue, isComposing>>
    /\ IF isComposing
       THEN /\ valueChangeCalls' = <<>>
            /\ UNCHANGED <<internalValue, error, internalHelperText, shownValue,
                           validated>>
       ELSE LET currentValue == internalValue
                first == validateAndSetError(currentValue, props)
                rounds ==
                    /\ ~first.hasError
                    /\ props.allowDecimal
                    /\ props.decimalPlaces.defined
                    /\ IsNumeric(currentValue)
                    /\ currentValue \notin {EMPTY, MINUS, DOT}
                roundedValue == ToFixed(ToNumber(currentValue), props.decimalPlaces.v)
            IN  /\ validated' = TRUE
                /\ IF rounds /\ roundedValue /= currentValue /\ roundedValue /= RangeError
                   THEN LET second == validateAndSetError(roundedValue, props)
                        IN  /\ internalValue' = roundedValue
                            /\ error' = second.hasError
                            /\ internalHelperText' = second.helperText
                            /\ shownValue' = Rerender(roundedValue, second, FALSE)
                            /\ valueChangeCalls' = <<roundedValue>>
                   ELSE /\ UNCHANGED internalValue
                        /\ error' = first.hasError
                        /\ internalHelperText' = first.helperText
                        /\ shownValue' = Rerender(currentValue, first, FALSE)
                        /\ valueChangeCalls' = <<>>

\* a parent that keeps the value in its state and passes onValueChange's
\* argument back as the `value` prop (value={controlledAmount}
\* onValueChange={setControlledAmount})
Echo ==
    \E i \in 1..Len(valueChangeCalls) :
        ExternalValueChanged(Def(valueChangeCalls[i]))

Next ==
    \/ \E v \in ExternalValues : ExternalValueChanged(v)
    \/ ParentRender
    \/ onCompositionStart
    \/ \E text \in Edits(shownValue) : RawChange(text)
    \/ \E text \in Edits(shownValue) \cup {shownValue} : onCompositionEnd(text)
    \/ handleInternalBlur

Spec == Init /\ [][Next]_vars

\* the field under a parent that also passes the notified values back
EchoNext == Next \/ Echo

EchoSpec == Init /\ [][EchoNext]_vars

----------------------------------------------------------------------------
(* The three pure functions on their own: an input text and the constraints *)
(* are drawn, then normalizeAndRemoveCommas, validateAndSetError and        *)
(* formatNumberWithCommas are applied as the mount and its render do.       *)

\* longest enumerated input text
FnMaxLen == 2

\* '1', '5', '.', '-', ',', and the full-width one, period, long mark,
\* hyphen-minus and comma, and a kana
FnAlphabet ==
    { CH_ZERO + 1, CH_ZERO + 5, CH_DOT, CH_MINUS, CH_COMMA,
      FW_ZERO + 1, FW_DOT, KATAKANA_LONG, FW_MINUS, FW_COMMA, HIRAGANA_A }

\* longer texts: '123' and '123,456' in full width (the second with the
\* full-width comma and with the comma), '150', '-5', '12.3', '1.5', '1.50',
\* '150.55', '5000', '1234567', '-1234.5', '007', '-.5'
FnSamples ==
    { <<FW_ZERO + 1, FW_ZERO + 2, FW_ZERO + 3>>,
      <<FW_ZERO + 1, FW_ZERO + 2, FW_ZERO + 3, FW_COMMA,
        FW_ZERO + 4, FW_ZERO + 5, FW_ZERO + 6>>,
      <<FW_ZERO + 1, FW_ZERO + 2, FW_ZERO + 3, CH_COMMA,
        FW_ZERO + 4, FW_ZERO + 5, FW_ZERO + 6>>,
      Str(<<1, 5, 0>>),
      <<CH_MINUS, CH_ZERO + 5>>,
      <<CH_ZERO + 1, CH_ZERO + 2, CH_DOT, CH_ZERO + 3>>,
      <<CH_ZERO + 1, CH_DOT, CH_ZERO + 5>>,
      <<CH_ZERO + 1, CH_DOT, CH_ZERO + 5, CH_ZERO>>,
      <<CH_ZERO + 1, CH_ZERO + 5, CH_ZERO, CH_DOT, CH_ZERO + 5, CH_ZERO + 5>>,
      Str(<<5, 0, 0, 0>>),
      Str(<<1, 2, 3, 4, 5, 6, 7>>),
      <<CH_MINUS, CH_ZERO + 1, CH_ZERO + 2, CH_ZERO + 3, CH_ZERO + 4, CH_DOT,
        CH_ZERO + 5>>,
      Str(<<0, 0, 7>>),
      <<CH_MINUS, CH_DOT, CH_ZERO + 5>> }

FnInputs ==
    {Undefined}
        \cup { Def(t) : t \in UNION { [1..k -> FnAlphabet] : k \in 0..FnMaxLen } }
        \cup { Def(t) : t \in FnSamples }

FnRanges ==
    { <<Undefined, Undefined>>, <<Def(0), Def(10)>>, <<Def(0), Def(100)>>,
      <<Def(1), Undefined>>, <<Def(10), Def(0)>> }

FnPropsSets ==
    { Props(required, allowDecimal, decimalPlaces, range[1], range[2]) :
          required \in BOOLEAN, allowDecimal \in BOOLEAN,
          decimalPlaces \in {Undefined, Def(0), Def(1), Def(2),
                             Def(MAX_FRACTION_DIGITS + 1)},
          range \in FnRanges }

FnInit ==
    /\ props \in FnPropsSets
    /\ controlledValue \in FnInputs
    /\ internalValue = <<>>
    /\ error = FALSE
    /\ internalHelperText = ""
    /\ isComposing = FALSE
    /\ shownValue = <<>>
    /\ lastEvent = Event("Input", controlledValue)
    /\ valueChangeCalls = <<>>
    /\ changeCalls = <<>>
    /\ blurCalls = 0
    /\ validated = FALSE

\* useState(normalizeAndRemoveCommas(controlledValue))
Normalize ==
    /\ lastEvent.kind = "Input"
    /\ internalValue' = normalizeAndRemoveCommas(controlledValue)
    /\ lastEvent' = Event("Normalize", controlledValue)
    /\ UNCHANGED <<props, controlledValue, error, internalHelperText, isComposing,
                   shownValue, valueChangeCalls, changeCalls, blurCalls, validated>>

\* validateAndSetError(internalValue)
Validate ==
    /\ lastEvent.kind = "Normalize"
    /\ LET verdict == validateAndSetError(internalValue, props)
       IN  /\ error' = verdict.hasError
           /\ internalHelperText' = verdict.helperText
    /\ validated' = TRUE
    /\ lastEvent' = Event("Validate", Def(internalValue))
    /\ UNCHANGED <<props, controlledValue, internalValue, isComposing, shownValue,
                   valueChangeCalls, changeCalls, blurCalls>>

\* formatNumberWithCommas(internalValue, allowDecimal, decimalPlaces)
Format ==
    /\ lastEvent.kind = "Normalize"
    /\ shownValue' = formatNumberWithCommas(internalValue, props.allowDecimal,
                                            props.decimalPlaces)
    /\ lastEvent' = Event("Format", Def(internalValue))
    /\ UNCHANGED <<props, controlledValue, internalValue, error, internalHelperText,
                   isComposing, valueChangeCalls, changeCalls, blurCalls, validated>>

FnNext == Normalize \/ Validate \/ Format

FnSpec == FnInit /\ [][FnNext]_vars

----------------------------------------------------------------------------
(* Properties *)

IdleRawChange == lastEvent.kind = "RawChange" /\ ~isComposing
ComposingRawChange == lastEvent.kind = "RawChange" /\ isComposing
IdleEdit == IdleRawChange \/ lastEvent.kind = "CompositionEnd"
Fired == valueChangeCalls /= <<>>

\* C1: while a composition is open (from onCompositionStart until
\* onCompositionEnd) no event has called onValueChange: a composition buffer
\* is never passed to it.
C1_NoValueChangeWhileComposing == isComposing => valueChangeCalls = <<>>

C1_Witness ==
    /\ ComposingRawChange
    /\ lastEvent.value.v /= <<>>
    /\ internalValue = lastEvent.value.v

\* C2: after every onCompositionEnd(finalText) the composition is closed, the
\* stored value is the normalized finalText, the stored verdict is the
\* validation of that value, and onValueChange was called exactly once, with
\* that value.
C2_CompositionEndCommits ==
    lastEvent.kind = "CompositionEnd" =>
        /\ ~isComposing
        /\ internalValue = normalizeAndRemoveCommas(lastEvent.value)
        /\ Verdict = validateAndSetError(internalValue, props)
        /\ valueChangeCalls = <<internalValue>>

C2_Witness ==
    /\ lastEvent.kind = "CompositionEnd"
    /\ lastEvent.value.v /= internalValue
    /\ internalValue /= <<>>
    /\ ~error

\* C3 (as stated): an idle change, a composition end or a blur calls
\* onValueChange if and only if it changes the stored value.
C3_FiresIffChanged ==
    [][ (IdleEdit' \/ lastEvent'.kind = "Blur") =>
            (Fired' <=> internalValue' /= internalValue) ]_vars

\* C3 (amended): an idle change or a composition end calls onValueChange
\* exactly once with the stored value, whether or not that value changed; a
\* blur calls it if and only if it changes the stored value, and then once
\* with the new value.
C3_FiresOnEditAndRounding ==
    [][ /\ IdleEdit' => valueChangeCalls' = <<internalValue'>>
        /\ lastEvent'.kind = "Blur" =>
              /\ Fired' <=> internalValue' /= internalValue
              /\ Fired' => valueChangeCalls' = <<internalValue'>> ]_vars

C3_Witness ==
    /\ lastEvent.kind = "Blur"
    /\ valueChangeCalls = <<internalValue>>

C5_ShownIsProjection ==
    shownValue = displayValue(isComposing, error, internalValue, props)

\* C6: a change of the `value` prop while a composition is open leaves the
\* stored value, the verdict and the composition flag unchanged and calls
\* neither onValueChange nor onChange.
C6_ExternalIgnoredWhileComposing ==
    [][ (lastEvent'.kind = "ExternalValueChanged" /\ isComposing) =>
            /\ UNCHANGED <<internalValue, error, internalHelperText, isComposing>>
            /\ valueChangeCalls' = <<>>
            /\ changeCalls' = <<>> ]_vars

C6_Witness ==
    /\ lastEvent.kind = "ExternalValueChanged"
    /\ isComposing
    /\ normalizeAndRemoveCommas(controlledValue) /= internalValue

\* C7: a change of the `value` prop never calls onValueChange or onChange,
\* with or without a composition open, whether or not the stored value changes.
C7_ExternalNeverNotifies ==
    lastEvent.kind = "ExternalValueChanged" =>
        valueChangeCalls = <<>> /\ changeCalls = <<>>

C7_Witness ==
    /\ lastEvent.kind = "ExternalValueChanged"
    /\ ~isComposing
    /\ controlledValue.defined
    /\ internalValue /= controlledValue.v
    /\ internalValue /= <<>>

\* C8: after a change of the `value` prop to v with no composition open, the
\* stored value is the normalized v; and when that differs from the value
\* stored before, the stored verdict is the validation of the normalized v.
C8_ExternalSynchronizes ==
    [][ (lastEvent'.kind = "ExternalValueChanged" /\ ~isComposing) =>
            /\ internalValue' = normalizeAndRemoveCommas(controlledValue')
            /\ normalizeAndRemoveCommas(controlledValue') /= internalValue =>
                   Verdict' = validateAndSetError(
                                  normalizeAndRemoveCommas(controlledValue'), props) ]_vars

C8_Witness ==
    /\ lastEvent.kind = "ExternalValueChanged"
    /\ ~isComposing
    /\ error
    /\ internalHelperText = "format"

\* C9: after a change event with text t and no composition open, the stored
\* value is the normalized t, the stored verdict is its validation, and
\* onValueChange and onChange were each called once with the stored value,
\* also when that value is in error.
C9_IdleChangeCommits ==
    IdleRawChange =>
        /\ internalValue = normalizeAndRemoveCommas(lastEvent.value)
        /\ Verdict = validateAndSetError(internalValue, props)
        /\ valueChangeCalls = <<internalValue>>
        /\ changeCalls = <<internalValue>>

C9_Witness ==
    /\ IdleRawChange
    /\ error
    /\ lastEvent.value.v /= internalValue
    /\ valueChangeCalls = <<internalValue>>

\* C10: every change event and every composition end calls onChange once;
\* the value it carries is the normalized stored value when the event is
\* handled with no composition open, and the raw buffer when it is handled
\* during a composition.
C10_ChangePassThrough ==
    lastEvent.kind \in {"RawChange", "CompositionEnd"} =>
        changeCalls = << IF isComposing
                         THEN lastEvent.value.v
                         ELSE normalizeAndRemoveCommas(lastEvent.value) >>

C10_Witness ==
    /\ ComposingRawChange
    /\ changeCalls = <<lastEvent.value.v>>
    /\ normalizeAndRemoveCommas(lastEvent.value) /= lastEvent.value.v

\* digits after the first '.', and equality of the numbers two texts denote
FractionDigits(s) == IF FirstDot(s) = 0 THEN 0 ELSE Len(s) - FirstDot(s)

SameNumber(s, t) ==
    LET x == ToNumber(s)
        y == ToNumber(t)
    IN  /\ x.mant * Pow10(y.scale) = y.mant * Pow10(x.scale)
        /\ x.mant = 0 \/ x.neg = y.neg

C12_BlurRoundsOnlyDecimalFields ==
    [][ ( /\ lastEvent'.kind = "Blur"
          /\ internalValue' /= internalValue \/ valueChangeCalls' /= <<>> )
        => ( /\ ~isComposing
             /\ props.allowDecimal
             /\ props.decimalPlaces.defined
             /\ ~validateAndSetError(internalValue, props).hasError ) ]_vars

C12_Witness ==
    /\ lastEvent.kind = "Blur"
    /\ ~props.allowDecimal
    /\ props.decimalPlaces.defined
    /\ FirstDot(internalValue) /= 0
    /\ error
    /\ internalHelperText = "format"
    /\ valueChangeCalls = <<>>

\* a text the normalizer leaves as it is, with no comma and no full-width digit
IsNormalized(s) ==
    /\ normalizeAndRemoveCommas(Def(s)) = s
    /\ \A k \in 1..Len(s) : s[k] /= CH_COMMA /\ ~(s[k] >= FW_ZERO /\ s[k] <= FW_NINE)

\* C13: in every state, with or without a composition open, the stored value
\* is a normalized value: it is its own normalization and holds no comma, no
\* full-width digit and no full-width period.
C13_CanonicalIsNormalized ==
    /\ IsNormalized(internalValue)
    /\ \A k \in 1..Len(internalValue) : internalValue[k] /= FW_DOT

\* C14: every value passed to onValueChange (by a change with no composition
\* open, a composition end or a blur that rounds) is a normalized value: it is
\* its own normalization and holds no comma and no full-width digit.
C14_NotifiedValuesAreNormalized ==
    \A i \in 1..Len(valueChangeCalls) : IsNormalized(valueChangeCalls[i])

C14_Witness ==
    /\ lastEvent.kind = "CompositionEnd"
    /\ \E k \in 1..Len(lastEvent.value.v) : lastEvent.value.v[k] = FW_ZERO + 1
    /\ \E k \in 1..Len(lastEvent.value.v) : lastEvent.value.v[k] = CH_COMMA
    /\ valueChangeCalls = <<Str(<<1>>)>>

Normalized == lastEvent.kind = "Normalize"

\* C15: the normalizer is idempotent: normalizing its result again gives the
\* same text, for every input text and for an absent input (whose result is
\* the empty text).
C15_NormalizerIdempotent ==
    Normalized =>
        /\ normalizeAndRemoveCommas(Def(internalValue)) = internalValue
        /\ ~controlledValue.defined => internalValue = <<>>

C15_Witness ==
    /\ Normalized
    /\ controlledValue.defined
    /\ internalValue /= controlledValue.v
    /\ Len(internalValue) = Len(controlledValue.v)
    /\ \E k \in 1..Len(internalValue) : internalValue[k] = CH_MINUS

\* C16: the normalizer turns every full-width digit into its half-width digit
\* and removes every grouping separator: its result holds no full-width digit
\* and no comma, half-width or full-width; '123' in full width gives '123'
\* and '123,456' in full width, with the full-width comma, gives '123456'.
C16_DigitsMappedSeparatorsRemoved ==
    (Normalized /\ controlledValue.defined) =>
        /\ \A k \in 1..Len(internalValue) :
               /\ ~(internalValue[k] >= FW_ZERO /\ internalValue[k] <= FW_NINE)
               /\ internalValue[k] \notin {CH_COMMA, FW_COMMA}
        /\ controlledValue.v = <<FW_ZERO + 1, FW_ZERO + 2, FW_ZERO + 3>>
               => internalValue = Str(<<1, 2, 3>>)
        /\ controlledValue.v = <<FW_ZERO + 1, FW_ZERO + 2, FW_ZERO + 3, FW_COMMA,
                                 FW_ZERO + 4, FW_ZERO + 5, FW_ZERO + 6>>
               => internalValue = Str(<<1, 2, 3, 4, 5, 6>>)

\* C17: the normalizer turns the full-width period into '.' and the
\* full-width minus sign into '-' wherever they occur: its result holds
\* neither, and a text made of these two characters is mapped one by one.
C17_PeriodAndMinusMapped ==
    (Normalized /\ controlledValue.defined) =>
        LET x == controlledValue.v
        IN  /\ \A k \in 1..Len(internalValue) :
                   internalValue[k] \notin {FW_DOT, FW_MINUS}
            /\ (\A k \in 1..Len(x) : x[k] \in {FW_DOT, FW_MINUS}) =>
                   internalValue = [k \in 1..Len(x) |->
                                       IF x[k] = FW_DOT THEN CH_DOT ELSE CH_MINUS]

Validated == lastEvent.kind = "Validate"

\* s matches ^-?[0-9]*(\.[0-9]*)?$ (decimals allowed) or ^-?[0-9]*$
MatchesPattern(s, allowDecimal) ==
    LET body == IF s /= <<>> /\ s[1] = CH_MINUS THEN SubSeq(s, 2, Len(s)) ELSE s
        n == Len(body)
    IN  \E d \in 0..n :
            /\ \A k \in 1..d : IsDigit(body[k])
            /\ \/ d = n
               \/ /\ allowDecimal
                  /\ body[d + 1] = CH_DOT
                  /\ \A k \in (d + 2)..n : IsDigit(body[k])

\* a complete well-formed number: it matches the pattern and has a digit
CompleteNumber(s, allowDecimal) ==
    /\ MatchesPattern(s, allowDecimal)
    /\ \E k \in 1..Len(s) : IsDigit(s[k])

\* C18: for a complete well-formed number with no more fractional digits
\* than decimalPlaces allows, the validation reports an error if and only if
\* the number is below min (when given) or above max (when given); with
\* min = 0 and max = 100, '150' gets the above-maximum error and '-5' the
\* below-minimum error.
C18_RangeErrorIffOutOfRange ==
    ( /\ Validated
      /\ CompleteNumber(internalValue, props.allowDecimal)
      /\ ~( /\ props.allowDecimal
            /\ props.decimalPlaces.defined
            /\ FractionDigits(internalValue) > props.decimalPlaces.v ) )
    => LET num == ToNumber(internalValue)
           below == props.min.defined /\ NumLess(num, props.min.v)
           above == props.max.defined /\ NumGreater(num, props.max.v)
       IN  /\ error <=> (below \/ above)
           /\ error => internalHelperText \in {"min", "max"}
           /\ (props.min = Def(0) /\ props.max = Def(100)) =>
                  /\ internalValue = Str(<<1, 5, 0>>) => internalHelperText = "max"
                  /\ internalValue = <<CH_MINUS, CH_ZERO + 5>> => internalHelperText = "min"

C18_Witness ==
    /\ Validated
    /\ props.min = Def(0)
    /\ props.max = Def(100)
    /\ internalValue = Str(<<1, 5, 0>>)
    /\ error
    /\ internalHelperText = "max"

\* C19: when required is false the validation reports no error for the
\* in-progress texts '' and '-' under any min, max, allowDecimal and
\* decimalPlaces, nor for '.' and '-.' when allowDecimal is true: neither the
\* range nor the decimal places are checked for them.
C19_InProgressNeverAnError ==
    ( /\ Validated
      /\ ~props.required
      /\ \/ internalValue \in {EMPTY, MINUS}
         \/ props.allowDecimal /\ internalValue \in {DOT, MINUS_DOT} )
    => ~error /\ internalHelperText = ""

C19_Witness ==
    /\ Validated
    /\ ~props.required
    /\ props.min = Def(1)
    /\ props.decimalPlaces = Def(1)
    /\ props.allowDecimal
    /\ internalValue = MINUS_DOT
    /\ ~error

\* C20: for every non-empty value the validation reports the format error
\* exactly when the value does not match ^-?[0-9]*(\.[0-9]*)?$ (allowDecimal
\* true) or ^-?[0-9]*$ (allowDecimal false); so every value with a decimal
\* point is a format error when allowDecimal is false.
C20_FormatErrorIffNoMatch ==
    (Validated /\ internalValue /= <<>>) =>
        /\ (error /\ internalHelperText = "format")
               <=> ~MatchesPattern(internalValue, props.allowDecimal)
        /\ (~props.allowDecimal /\ FirstDot(internalValue) /= 0) =>
               error /\ internalHelperText = "format"

C20_Witness ==
    /\ Validated
    /\ ~props.allowDecimal
    /\ internalValue = <<CH_ZERO + 1, CH_ZERO + 2, CH_DOT, CH_ZERO + 3>>
    /\ error
    /\ internalHelperText = "format"

\* C21: with allowDecimal and decimalPlaces given, the validation reports the
\* decimal-places error for a complete well-formed value exactly when it has
\* more digits after the decimal point than decimalPlaces, trailing zeros
\* counted; with allowDecimal false the verdict does not depend on
\* decimalPlaces.
C21_DecimalsErrorIffTooManyDigits ==
    Validated =>
        /\ ( /\ props.allowDecimal
             /\ props.decimalPlaces.defined
             /\ CompleteNumber(internalValue, TRUE) )
           => ( (error /\ internalHelperText = "decimals")
                   <=> FractionDigits(internalValue) > props.decimalPlaces.v )
        /\ ~props.allowDecimal =>
               Verdict = validateAndSetError(internalValue,
                             [props EXCEPT !.decimalPlaces = Undefined])

C21_Witness ==
    /\ Validated
    /\ props.allowDecimal
    /\ props.decimalPlaces = Def(1)
    /\ internalValue = <<CH_ZERO + 1, CH_DOT, CH_ZERO + 5, CH_ZERO>>
    /\ error
    /\ internalHelperText = "decimals"

\* C22: the validation reports at most one error kind, chosen in the order
\* required, format, decimal places, range: the error flag is set exactly
\* when the message is one of these kinds, an empty required value gets the
\* required error, a non-empty value that fails the pattern the format error,
\* and a value with too many decimal places that is also out of range only
\* the decimal-places error.
C22_OneErrorInFixedOrder ==
    Validated =>
        LET num == ToNumber(internalValue)
            complete == CompleteNumber(internalValue, props.allowDecimal)
            tooMany == /\ props.allowDecimal
                       /\ props.decimalPlaces.defined
                       /\ FractionDigits(internalValue) > props.decimalPlaces.v
            outOfRange == \/ props.min.defined /\ NumLess(num, props.min.v)
                          \/ props.max.defined /\ NumGreater(num, props.max.v)
        IN  /\ error <=> internalHelperText \in
                             {"required", "format", "decimals", "min", "max"}
            /\ ~error => internalHelperText = ""
            /\ internalHelperText = "required" <=>
                   (props.required /\ internalValue = <<>>)
            /\ internalHelperText = "format" <=>
                   (internalValue /= <<>>
                        /\ ~MatchesPattern(internalValue, props.allowDecimal))
            /\ internalHelperText = "decimals" <=> (complete /\ tooMany)
            /\ internalHelperText \in {"min", "max"} <=>
                   (complete /\ ~tooMany /\ outOfRange)

C22_Witness ==
    /\ Validated
    /\ props.decimalPlaces = Def(1)
    /\ props.max = Def(100)
    /\ internalValue =
           <<CH_ZERO + 1, CH_ZERO + 5, CH_ZERO, CH_DOT, CH_ZERO + 5, CH_ZERO + 5>>
    /\ internalHelperText = "decimals"

\* C30: when a complete well-formed value is below min and above max (which
\* needs min > max), the validation reports the error of the later check,
\* the max check.
C30_MaxMessageWins ==
    ( /\ Validated
      /\ CompleteNumber(internalValue, props.allowDecimal)
      /\ ~( /\ props.allowDecimal
            /\ props.decimalPlaces.defined
            /\ FractionDigits(internalValue) > props.decimalPlaces.v )
      /\ props.min.defined /\ NumLess(ToNumber(internalValue), props.min.v)
      /\ props.max.defined /\ NumGreater(ToNumber(internalValue), props.max.v) )
    => error /\ internalHelperText = "max"

C30_Witness ==
    /\ Validated
    /\ props.min = Def(10)
    /\ props.max = Def(0)
    /\ internalValue = Str(<<5>>)
    /\ internalHelperText = "max"

\* the text before the first '.', without a leading '-'
IntegerPortion(s) ==
    LET body == IF s /= <<>> /\ s[1] = CH_MINUS THEN SubSeq(s, 2, Len(s)) ELSE s
        d == FirstDot(body)
    IN  IF d = 0 THEN body ELSE SubSeq(body, 1, d - 1)

\* C23: whenever no composition is open and the error flag is not set, the
\* shown text has the integer part of the stored number grouped in threes by
\* commas; after the `value` prop changes to '5000' with allowDecimal and no
\* decimalPlaces, the field shows '5,000'.
C23_IdleErrorFreeShowsGrouped ==
    /\ ( /\ ~isComposing
         /\ ~error
         /\ internalValue /= <<>>
         /\ IsNumeric(internalValue) )
       => IntegerPortion(shownValue) =
              GroupThousands(NatToDigits(DigitsToNat(IntegerPortion(internalValue))))
    /\ ( /\ lastEvent = Event("ExternalValueChanged", Def(Str(<<5, 0, 0, 0>>)))
         /\ ~isComposing
         /\ ~error
         /\ props.allowDecimal
         /\ ~props.decimalPlaces.defined )
       => shownValue = <<CH_ZERO + 5, CH_COMMA, CH_ZERO, CH_ZERO, CH_ZERO>>

Formatted == lastEvent.kind = "Format"

RemoveCommas(s) == SelectSeq(s, LAMBDA c : c /= CH_COMMA)

\* C24: the formatter never changes the digits: for every value the
\* validation accepts, the formatted text without its commas is the value,
\* character for character; the fraction, and a trailing decimal point, is
\* kept as typed and is not padded or cut to decimalPlaces.
C24_FormatterKeepsCharacters ==
    ( /\ Formatted
      /\ ~validateAndSetError(internalValue, props).hasError )
    => RemoveCommas(shownValue) = internalValue

C26_NeverThrows ==
    /\ internalValue /= RangeError
    /\ shownValue /= RangeError

\* C27: the stored value changes only in an ExternalValueChanged with no
\* composition open, a RawChange with no composition open, a CompositionEnd
\* and a Blur; a RawChange during a composition leaves the stored value and
\* the verdict as they were.
C27_CanonicalMutators ==
    [][ /\ internalValue' /= internalValue
           => \/ lastEvent'.kind = "ExternalValueChanged" /\ ~isComposing
              \/ lastEvent'.kind = "RawChange" /\ ~isComposing
              \/ lastEvent'.kind = "CompositionEnd"
              \/ lastEvent'.kind = "Blur" /\ valueChangeCalls' = <<internalValue'>>
        /\ (lastEvent'.kind = "RawChange" /\ isComposing)
           => /\ internalValue' = internalValue
              /\ Verdict' = Verdict ]_vars

EchoStep ==
    /\ lastEvent'.kind = "ExternalValueChanged"
    /\ \E i \in 1..Len(valueChangeCalls) :
           lastEvent'.value = Def(valueChangeCalls[i])

\* C29: no feedback loop: when the parent passes the value of an
\* onValueChange back as the `value` prop, that step changes neither the
\* stored value nor the verdict and calls neither onValueChange nor onChange,
\* so nothing is left to pass back and the exchange ends after the one
\* notification of the user's event.
C29_EchoIsQuiescent ==
    [][ EchoStep
        => /\ internalValue' = internalValue
           /\ Verdict' = Verdict
           /\ valueChangeCalls' = <<>>
           /\ changeCalls' = <<>> ]_vars

C29_Witness ==
    /\ lastEvent = Event("ExternalValueChanged", Def(<<CH_ZERO + 1, CH_DOT, CH_ZERO>>))
    /\ controlledValue = Def(internalValue)
    /\ props.decimalPlaces = Def(1)
    /\ validated
    /\ ~isComposing
    /\ valueChangeCalls = <<>>

\* the validation exempts the text as an in-progress one
InProgress(s, allowDecimal) ==
    \/ s = MINUS
    \/ allowDecimal /\ s \in {DOT, MINUS_DOT}

\* C31: the conversion-failure branch of the validation is never taken:
\* every non-empty text that matches the pattern and is not an exempted
\* in-progress text converts to a number, with and without allowDecimal.
C31_ConversionNeverFails ==
    Validated
    => /\ internalHelperText /= "nan"
       /\ ( /\ internalValue /= <<>>
            /\ MatchesPattern(internalValue, props.allowDecimal)
            /\ ~InProgress(internalValue, props.allowDecimal) )
          => IsNumeric(internalValue)

C31_Witness ==
    /\ Validated
    /\ props.allowDecimal
    /\ ~props.min.defined
    /\ internalValue = <<CH_MINUS, CH_DOT, CH_ZERO + 5>>
    /\ ~error

\* C32: no composition is open at the start; isComposing changes only in
\* onCompositionStart (to TRUE) and onCompositionEnd (to FALSE); a change
\* event, a blur and a new `value` leave it as it is; onCompositionStart
\* changes nothing else: stored value, verdict and shown text stay.
C32_CompositionStateFrame ==
    /\ ~isComposing
    /\ [][ /\ isComposing' /= isComposing
              => \/ lastEvent'.kind = "CompositionStart" /\ isComposing'
                 \/ lastEvent'.kind = "CompositionEnd" /\ ~isComposing'
           /\ lastEvent'.kind \in {"RawChange", "Blur", "ExternalValueChanged",
                                   "ParentRender"}
              => isComposing' = isComposing
           /\ lastEvent'.kind = "CompositionStart"
              => /\ isComposing'
                 /\ UNCHANGED <<props, controlledValue, internalValue, error,
                                internalHelperText, shownValue>>
           /\ lastEvent'.kind = "CompositionEnd" => ~isComposing' ]_vars

C32_Witness ==
    /\ lastEvent.kind = "CompositionStart"
    /\ isComposing
    /\ error
    /\ internalHelperText = "format"
    /\ shownValue = internalValue

\* C33: in every state with no composition open that follows a validation
\* (an idle change event, an onCompositionEnd, an idle blur, or a new `value`
\* that was stored), the stored verdict is the validation of the stored
\* value under the props: the error flag is never stale.
C33_VerdictNeverStale ==
    (validated /\ ~isComposing)
    => Verdict = validateAndSetError(internalValue, props)

C33_Witness ==
    /\ lastEvent.kind = "Blur"
    /\ validated
    /\ ~isComposing
    /\ props.required
    /\ internalValue = <<>>
    /\ error
    /\ internalHelperText = "required"

C35_IdleCanonicalIsNormalized ==
    ~isComposing => normalizeAndRemoveCommas(Def(internalValue)) = internalValue

C35_Witness ==
    /\ lastEvent = Event("CompositionEnd", Def(<<CH_ZERO + 1, FW_ZERO + 1>>))
    /\ ~isComposing
    /\ internalValue = <<CH_ZERO + 1, CH_ZERO + 1>>

Committed(t) ==
    LET c == normalizeAndRemoveCommas(Def(t))
    IN  <<c, validateAndSetError(c, props), FALSE>>

\* C37: a composition leaves no trace of its buffers: the stored value, the
\* verdict and the composition flag after an onCompositionEnd with the text t
\* are a function of t and the props alone, whatever the change events of
\* the composition stored, and they are the ones a single change event with
\* the text t and no composition open leaves.
C37_CompositionLeavesNoTrace ==
    [][ ( \/ lastEvent'.kind = "CompositionEnd"
          \/ lastEvent'.kind = "RawChange" /\ ~isComposing )
        => <<internalValue', Verdict', isComposing'>>
               = Committed(lastEvent'.value.v) ]_vars

C37_Witness ==
    /\ lastEvent = Event("CompositionEnd", Def(<<FW_ZERO + 1, CH_COMMA>>))
    /\ controlledValue = Undefined
    /\ internalValue = <<CH_ZERO + 1>>
    /\ ~isComposing
    /\ Verdict = NoError

\* C38: a blur never changes the number the stored value denotes: the value
\* it stores is the stored value itself or the same number written anew
\* (fraction padded with zeros, integer part rewritten), and the in-progress
\* texts '', '-', '.' and '-.' are left as they are.
C38_BlurKeepsNumber ==
    [][ lastEvent'.kind = "Blur"
        => /\ \/ internalValue' = internalValue
              \/ /\ IsNumeric(internalValue)
                 /\ IsNumeric(internalValue')
                 /\ SameNumber(internalValue, internalValue')
           /\ internalValue \in {EMPTY, MINUS, DOT, MINUS_DOT}
              => internalValue' = internalValue ]_vars

C38_Witness ==
    /\ lastEvent.kind = "Blur"
    /\ props.decimalPlaces = Def(1)
    /\ internalValue = <<CH_ZERO, CH_DOT, CH_ZERO + 1>>
    /\ valueChangeCalls = <<internalValue>>
    /\ shownValue = internalValue

\* C39: a blur is idempotent: a blur that follows a blur with no event in
\* between leaves the stored value and the verdict as they are and does not
\* call onValueChange.
C39_BlurIdempotent ==
    [][ (lastEvent.kind = "Blur" /\ lastEvent'.kind = "Blur")
        => /\ internalValue' = internalValue
           /\ Verdict' = Verdict
           /\ valueChangeCalls' = <<>> ]_vars

C39_Witness ==
    /\ lastEvent.kind = "Blur"
    /\ ~isComposing
    /\ props.decimalPlaces = Def(2)
    /\ internalValue = <<CH_ZERO + 1, CH_DOT, CH_ZERO, CH_ZERO>>
    /\ valueChangeCalls = <<>>
    /\ blurCalls = 1

====
